---------------------------- MODULE Spec2Model ----------------------------
(***************************************************************************)
(* State-machine model of src/https_everywhere/adapter.py: the adapters    *)
(* HTTPSEverywhereOnlyAdapter, ChromePreloadHSTSAdapter,                   *)
(* HTTPSEverywhereAdapter, RedirectAdapter, ForceHTTPSAdapter,             *)
(* PreferHTTPSAdapter, UpgradeHTTPSAdapter and SafeUpgradeHTTPSAdapter     *)
(* wrapped around requests' HTTPAdapter.                                   *)
(*                                                                         *)
(* A Python string is a sequence of one-character strings, so startswith,  *)
(* slicing and concatenation are computed as the code computes them.       *)
(* One adapter instance serves one send call at a time.  A send call runs  *)
(* from its entry action to the first call that leaves the adapter (the    *)
(* underlying transport HTTPAdapter.send, or requests.head in the probe);  *)
(* pc names the source line of the pending call, and the action for that   *)
(* line takes the outcome chosen by the network and runs the code on to    *)
(* the next such call or to the end of send.                               *)
(***************************************************************************)
EXTENDS Naturals, Sequences, FiniteSets

VARIABLES
    adapter,        \* class of the adapter instance
    exclusions,     \* self._https_exclusions, a list of tail prefixes
    rulesets,       \* the rulesets https_url_rewrite works with
    _domains,       \* self._domains, the preloaded domains
    consulted,      \* the policies looked up during this send, in order
    mode,           \* "free": any caller; "follow": a caller following redirects
    pc,             \* "idle", "done", or the line of the pending outside call
    url,            \* local `url` of send: request.url on entry
    request_url,    \* request.url, mutated in place by the fallback adapters
    result,         \* what send gave its caller: a response or an exception
    transport_log,  \* the HTTPAdapter.send calls of this send: URL and outcome
    synthesized,    \* number of _generate_redirect calls during this send
    current_url,    \* probe: current_url of _follow_redirects_on_http
    previous_url,   \* probe: previous_url (None is the empty string here)
    last_probe,     \* method and outcome of the last probe request of this send
    redirect,       \* what _follow_redirects_on_http returned to send
    calls,          \* send calls made on the adapter so far (saturating)
    came_from       \* the URL of the send whose response the caller followed

vars == <<adapter, exclusions, rulesets, _domains, consulted, mode, pc, url,
          request_url, result, transport_log, synthesized, current_url,
          previous_url, last_probe, redirect, calls,
          came_from>>

-----------------------------------------------------------------------------
(* Bounds of the model *)

\* longest URL tail (the part after the scheme) the caller or a server uses
MaxTailLen == 1
\* longest exclusion list
MaxRules == 1
\* the count of send calls on the adapter saturates here
MaxCalls == 2

Alphabet == {"a"}

-----------------------------------------------------------------------------
(* Python strings *)

HTTP == <<"h", "t", "t", "p", ":", "/", "/">>
HTTPS == <<"h", "t", "t", "p", "s", ":", "/", "/">>
HTTPS_COLON == <<"h", "t", "t", "p", "s", ":">>
FTP == <<"f", "t", "p", ":", "/", "/">>

\* s.startswith(p)
startswith(s, p) == Len(p) <= Len(s) /\ SubSeq(s, 1, Len(p)) = p

\* s[n:]
SliceFrom(s, n) == IF n >= Len(s) THEN << >> ELSE SubSeq(s, n + 1, Len(s))

\* None and "" are both false; headers.get("location") of a response without
\* the header, and previous_url = None, are the empty sequence here.
None == << >>
Truthy(s) == s # << >>

Tails == UNION {[1..n -> Alphabet] : n \in 0..MaxTailLen}
Schemes == {HTTP, HTTPS, FTP}
URLs == {p \o t : p \in Schemes, t \in Tails}
ExclusionLists == UNION {[1..n -> Tails] : n \in 0..MaxRules}


-----------------------------------------------------------------------------
(* Responses, exceptions and what the network may answer *)

\* _REASON, the sentinel reason of a synthetic response
_REASON == "HTTPS Everywhere"

NoResponse == [status |-> 0, reason |-> "", location |-> None]

\* _generate_redirect(location), code = 302
_generate_redirect(location) ==
    [status |-> 302, reason |-> _REASON, location |-> location]

\* Statuses a server answers with: no error, 403, another error status.  The
\* adapters read a status only through raise_for_status (an error from 400
\* on) and the comparison with 403.
ServerStatuses == {200, 403, 500}

\* Reason phrases a server answers with: its own, or the very phrase of
\* _REASON (HTTPAdapter.build_response copies the phrase as the server sent
\* it, and line 319 compares it).
ServerReasons == {"OK", _REASON}

\* Responses that come from the network
ServerResponses ==
    [status : ServerStatuses, reason : ServerReasons,
     location : URLs \cup {None}]

\* _https_downgrade_exceptions of UpgradeHTTPSAdapter and SafeUpgradeHTTPSAdapter
_https_downgrade_exceptions == {"ConnectionError", "MaxRetryError", "SSLError"}

\* Exceptions the transport raises: the three above and one that is none of them.
TransportExceptions == _https_downgrade_exceptions \cup {"ReadTimeout"}

Outcomes ==
    [kind : {"response"}, resp : ServerResponses, exc : {"none"}]
    \cup [kind : {"raise"}, resp : {NoResponse}, exc : TransportExceptions]

NoResult == [kind |-> "none", resp |-> NoResponse, exc |-> "none"]
Returned(r) == [kind |-> "return", resp |-> r, exc |-> "none"]
Raised(e) == [kind |-> "raise", resp |-> NoResponse, exc |-> e]

\* the outcome of a tail call `return super().send(request)`
Passed(o) == IF o.kind = "response" THEN Returned(o.resp) ELSE Raised(o.exc)

-----------------------------------------------------------------------------
(* ForceHTTPSAdapter *)

\* mutant: the exclusions are ignored
_prevent_https_never(tail) == FALSE

\* mutant: a rule excludes only the tail equal to it
_prevent_https_equal(tail) ==
    \E i \in 1..Len(exclusions) : tail = exclusions[i]

\* ForceHTTPSAdapter._prevent_https(tail)
_prevent_https(tail) ==
    \E i \in 1..Len(exclusions) : startswith(tail, exclusions[i])

\* mutant: the https:// branch strips 7 characters, like the http:// branch
ForceRedirect_slice7(u) ==
    IF startswith(u, HTTPS)
    THEN LET tail == SliceFrom(u, 7)
         IN  IF _prevent_https(tail) THEN HTTP \o tail ELSE None
    ELSE IF startswith(u, HTTP)
    THEN LET tail == SliceFrom(u, 7)
         IN  IF ~_prevent_https(tail) THEN HTTPS \o tail ELSE None
    ELSE None

\* ForceHTTPSAdapter.send: the Location of the redirect it synthesizes for a
\* request to u, or None when it forwards the request to HTTPAdapter.send.
ForceRedirect(u) ==
    IF startswith(u, HTTPS)
    THEN LET tail == SliceFrom(u, 8)
         IN  IF _prevent_https(tail) THEN HTTP \o tail ELSE None
    ELSE IF startswith(u, HTTP)
    THEN LET tail == SliceFrom(u, 7)
         IN  IF ~_prevent_https(tail) THEN HTTPS \o tail ELSE None
    ELSE None


-----------------------------------------------------------------------------
(* Rulesets and preloaded domains.  The modules _rules, _chrome_preload_hsts *)
(* and _util are not among the sources; what they give is taken from         *)
(* sections 4.3 and 4.4 of the specification.                                *)

\* URLs the rule and preload adapters are asked for: those above, a URL of a
\* subdomain and a URL with a path
RewriteTails == Tails \cup {<<"b", ".", "a">>, <<"a", "/">>}
RewriteURLs == {p \o t : p \in Schemes, t \in RewriteTails}

\* A rule rewrites the URLs of its target host: http://target is replaced
\* by `to`, the rest of the URL is kept.  The rules here are for host a and
\* rewrite to https://a or to http://b; host b has no rule.
Rules == [target : {<<"a">>}, to : {HTTPS \o <<"a">>, HTTP \o <<"b">>}]
Rulesets == UNION {[1..n -> Rules] : n \in 0..MaxRules}

\* _preload_including_subdomains(): the preloaded domains
PreloadSets == SUBSET {<<"a">>}

\* parse_url(url).host of an http:// URL: what stands between the scheme and
\* the first "/" (the URLs here have no port and no user)
parse_url_host(u) ==
    LET t == SliceFrom(u, 7)
        slashes == {i \in 1..Len(t) : t[i] = "/"}
    IN  IF slashes = {} THEN t
        ELSE SubSeq(t, 1, (CHOOSE i \in slashes : \A j \in slashes : i <= j) - 1)

\* _check_in(domains, host): the host or a parent domain of it is in domains
_check_in(domains, host) ==
    \/ host \in domains
    \/ \E i \in 1..Len(host) : host[i] = "." /\ SliceFrom(host, i) \in domains

\* https_url_rewrite(url): the transform of the first rule that matches the
\* host, or the URL as it is
https_url_rewrite(u) ==
    LET matching == {i \in 1..Len(rulesets) :
                        rulesets[i].target = parse_url_host(u)}
    IN  IF matching = {} THEN u
        ELSE LET i == CHOOSE i \in matching : \A j \in matching : i <= j
             IN  rulesets[i].to \o SliceFrom(u, 7 + Len(rulesets[i].target))

-----------------------------------------------------------------------------
(* The caller and the network *)

\* ForceHTTPSAdapter and its subclasses, which take https_exclusions
ForceAdapters == {"ForceHTTPSAdapter", "PreferHTTPSAdapter",
                  "UpgradeHTTPSAdapter", "SafeUpgradeHTTPSAdapter"}

Adapters == ForceAdapters \cup {"HTTPSEverywhereOnlyAdapter",
                                "ChromePreloadHSTSAdapter",
                                "HTTPSEverywhereAdapter", "RedirectAdapter"}

NoProbe == [method |-> "none", out |-> NoResult]

\* What the probe returns: None or a string (type "str"), or a response.
NoRedirect == [type |-> "none", str |-> None, resp |-> NoResponse]
RedirectStr(x) == [type |-> "str", str |-> x, resp |-> NoResponse]
RedirectResponse(r) == [type |-> "response", str |-> None, resp |-> r]

\* An HTTPAdapter.send call with the request's URL at that moment; its
\* outcome is filled in when the call ends.
Pending == [kind |-> "pending", resp |-> NoResponse, exc |-> "none"]
Invoked(u) == [url |-> u, out |-> Pending]
Ended(log, o) == [log EXCEPT ![Len(log)].out = o]

\* the URL of the pending HTTPAdapter.send call
sent == transport_log[Len(transport_log)].url

\* What a server of the loop scenario answers: https://t fails with one of
\* the categorized failures or redirects to http://t, and http://t answers
\* without a Location header.
LoopOutcomes(u) ==
    IF startswith(u, HTTPS)
    THEN {o \in Outcomes :
            \/ o.kind = "raise" /\ o.exc \in _https_downgrade_exceptions
            \/ o.kind = "response" /\ o.resp.status = 200
                                   /\ o.resp.location = HTTP \o SliceFrom(u, 8)}
    ELSE IF startswith(u, HTTP)
    THEN {o \in Outcomes : o.kind = "response" /\ o.resp.status = 200
                                               /\ o.resp.location = None}
    ELSE {}

\* the outcomes of a request to u
ServerOutcomes(u) == IF mode = "follow" THEN LoopOutcomes(u) ELSE Outcomes

\* send has returned a response that _generate_redirect made in this very
\* send, not the response of an HTTPAdapter.send call, whatever its reason
\* phrase is
ReturnedSynthetic ==
    /\ pc = "done"
    /\ result.kind = "return"
    /\ synthesized > 0
    /\ \A i \in DOMAIN transport_log : Passed(transport_log[i].out) # result

\* The caller submits a request for u to the adapter's send.  A free caller
\* submits any URL once it has taken the result of the send before; a
\* redirected caller starts with any URL and then submits exactly the
\* Location of each response the adapter made itself; a following caller
\* starts with an http:// or https:// URL whose tail is not excluded and then
\* submits exactly the Location of each response.
CallerSubmits(u) ==
    IF mode = "free"
    THEN pc = "idle"
    ELSE IF mode = "redirected"
    THEN \/ pc = "idle"
         \/ /\ ReturnedSynthetic
            /\ u = result.resp.location
    ELSE \/ /\ pc = "idle"
            /\ \/ startswith(u, HTTP) /\ ~_prevent_https(SliceFrom(u, 7))
               \/ startswith(u, HTTPS) /\ ~_prevent_https(SliceFrom(u, 8))
         \/ /\ pc = "done"
            /\ result.kind = "return"
            /\ Truthy(result.resp.location)
            /\ u = result.resp.location

\* the URL of the send before, when this send follows its response
Followed == IF pc = "done" THEN url ELSE None

\* one more send call
Tick(n) == IF n < MaxCalls THEN n + 1 ELSE MaxCalls

\* entry of a send: per-call observations start afresh
NoProbing ==
    /\ consulted' = << >>
    /\ current_url' = None
    /\ previous_url' = None
    /\ last_probe' = NoProbe
    /\ redirect' = NoRedirect

\* the URLs a caller of a rule or preload adapter submits
RewriteSubmits ==
    IF pc = "done" /\ result.kind = "return"
    THEN RewriteURLs \cup {result.resp.location}
    ELSE RewriteURLs

\* construction of the adapter: each class holds what its __init__ sets
Constructed ==
    /\ exclusions \in IF adapter \in ForceAdapters THEN ExclusionLists
                      ELSE {<< >>}
    /\ rulesets \in IF adapter \in {"HTTPSEverywhereOnlyAdapter",
                                     "HTTPSEverywhereAdapter"}
                    THEN Rulesets ELSE {<< >>}
    /\ _domains \in IF adapter \in {"ChromePreloadHSTSAdapter",
                                     "HTTPSEverywhereAdapter"}
                    THEN PreloadSets ELSE {{}}
    /\ consulted = << >>

Init ==
    /\ adapter \in Adapters
    /\ Constructed
    /\ mode = "free"
    /\ pc = "idle"
    /\ url = None
    /\ request_url = None
    /\ result = NoResult
    /\ transport_log = << >>
    /\ synthesized = 0
    /\ current_url = None
    /\ previous_url = None
    /\ calls = 0
    /\ came_from = None
    /\ last_probe = NoProbe
    /\ redirect = NoRedirect

\* send has returned or raised: the caller takes the result, and the request
\* and the response of the call are gone.  The adapter keeps its exclusions.
CallerTakesResult ==
    /\ mode = "free"
    /\ pc = "done"
    /\ pc' = "idle"
    /\ url' = None
    /\ request_url' = None
    /\ result' = NoResult
    /\ transport_log' = << >>
    /\ synthesized' = 0
    /\ NoProbing
    /\ came_from' = None
    /\ UNCHANGED <<adapter, exclusions, rulesets, _domains, mode, calls>>

-----------------------------------------------------------------------------
(* ForceHTTPSAdapter.send *)

ForceHTTPSAdapter_send(u) ==
    /\ adapter = "ForceHTTPSAdapter"
    /\ CallerSubmits(u)
    /\ url' = u
    /\ request_url' = u
    /\ LET location == ForceRedirect(u)
       IN  IF Truthy(location)
           THEN /\ synthesized' = 1
                /\ result' = Returned(_generate_redirect(location))
                /\ transport_log' = << >>
                /\ pc' = "done"
           ELSE /\ synthesized' = 0
                /\ result' = NoResult
                /\ transport_log' = <<Invoked(u)>>
                /\ pc' = "L172"
    /\ NoProbing
    /\ calls' = Tick(calls)
    /\ came_from' = Followed
    /\ UNCHANGED <<adapter, exclusions, rulesets, _domains, mode>>

\* HTTPAdapter.send ends where its outcome is the outcome of send: lines 48,
\* 70, 132 (handle_error raises the exception again), 172, 274 (through
\* 172), 289 (through 172), 300 and 335.
HTTPAdapter_send_returns(o) ==
    /\ pc \in {"L48", "L70", "L132", "L172", "L274", "L289", "L300", "L335"}
    /\ o \in ServerOutcomes(sent)
    /\ transport_log' = Ended(transport_log, o)
    /\ result' = Passed(o)
    /\ pc' = "done"
    /\ UNCHANGED <<adapter, exclusions, rulesets, _domains, consulted, mode,
                   calls, came_from, url, request_url, synthesized,
                   current_url, previous_url, last_probe, redirect>>

-----------------------------------------------------------------------------
(* UpgradeHTTPSAdapter.send *)

UpgradeHTTPSAdapter_send(u) ==
    /\ adapter = "UpgradeHTTPSAdapter"
    /\ CallerSubmits(u)
    /\ url' = u
    /\ request_url' = u
    /\ LET location == ForceRedirect(u)
       IN  IF Truthy(location)
           THEN /\ synthesized' = 1
                /\ result' = Returned(_generate_redirect(location))
                /\ transport_log' = << >>
                /\ pc' = "done"
           ELSE /\ synthesized' = 0
                /\ result' = NoResult
                /\ transport_log' = <<Invoked(u)>>
                /\ pc' = IF ~startswith(u, HTTPS) THEN "L289" ELSE "L294"
    /\ NoProbing
    /\ calls' = Tick(calls)
    /\ came_from' = Followed
    /\ UNCHANGED <<adapter, exclusions, rulesets, _domains, mode>>

\* mutant: TLS failures are not caught
UpgradeCatches_noSSL(exc) == exc \in {"ConnectionError", "MaxRetryError"}

\* mutant: a bare except
UpgradeCatches_all(exc) == TRUE

\* the except clause of line 295
UpgradeCatches(exc) == exc \in _https_downgrade_exceptions

\* the forced send of line 294 ends
UpgradeHTTPSAdapter_try(o) ==
    /\ pc = "L294"
    /\ o \in ServerOutcomes(sent)
    /\ IF o.kind = "raise" /\ UpgradeCatches(o.exc)
       THEN /\ request_url' = HTTP \o SliceFrom(url, 8)
            /\ transport_log' =
                   Append(Ended(transport_log, o), Invoked(request_url'))
            /\ result' = NoResult
            /\ pc' = "L300"
       ELSE /\ transport_log' = Ended(transport_log, o)
            /\ result' = Passed(o)
            /\ pc' = "done"
            /\ UNCHANGED request_url
    /\ UNCHANGED <<adapter, exclusions, rulesets, _domains, consulted, mode,
                   calls, came_from, url, synthesized, current_url,
                   previous_url, last_probe, redirect>>


-----------------------------------------------------------------------------
(* SafeUpgradeHTTPSAdapter.send *)

\* the except clause of line 330
SafeCatches(exc) == exc \in _https_downgrade_exceptions

\* mutant: the Location is compared with request.url as it is now, after
\* the rewrite of line 321, not with the URL on entry
SafeReturns_current(loc, entry_url) == ~Truthy(loc) \/ loc # request_url

\* mutant: the response of the forced send is always returned
SafeReturns_always(loc, entry_url) == TRUE

\* lines 327-329: the response of the forced send is returned unless its
\* Location is the URL the request had on entry
SafeReturns(loc, entry_url) == ~Truthy(loc) \/ loc # entry_url

\* line 319: the response of the initial send carries the reason phrase of
\* _generate_redirect, whoever made it, and send goes on with its Location
\* instead of returning it
SafeFollows(resp) == resp.reason = _REASON

\* lines 333-335: the request is rewritten in place and sent by HTTPAdapter.send
SafeFallback(r, log) ==
    /\ request_url' = HTTP \o SliceFrom(r, 8)
    /\ transport_log' = Append(log, Invoked(request_url'))
    /\ result' = NoResult
    /\ pc' = "L335"

\* lines 327-329 and on, for the response resp to a request whose URL is r
\* and was u on entry
SafeAfterForced(resp, r, u, log) ==
    IF SafeReturns(resp.location, u)
    THEN /\ result' = Returned(resp)
         /\ pc' = "done"
         /\ request_url' = r
         /\ transport_log' = log
    ELSE SafeFallback(r, log)

\* lines 323-335 for a request whose URL is r and was u on entry, after n
\* synthetic responses and the HTTPAdapter.send calls of log
SafeForced(r, u, n, log) ==
    LET location == ForceRedirect(r)
    IN  IF Truthy(location)
        THEN /\ synthesized' = n + 1
             /\ SafeAfterForced(_generate_redirect(location), r, u, log)
        ELSE /\ synthesized' = n
             /\ request_url' = r
             /\ transport_log' = Append(log, Invoked(r))
             /\ result' = NoResult
             /\ pc' = "L324"

SafeUpgradeHTTPSAdapter_send(u) ==
    /\ adapter = "SafeUpgradeHTTPSAdapter"
    /\ CallerSubmits(u)
    /\ url' = u
    /\ IF ~startswith(u, HTTPS)
       THEN LET location == ForceRedirect(u)
            IN  IF Truthy(location)
                THEN IF SafeFollows(_generate_redirect(location))
                     THEN \* request.url = response.headers["location"]
                          SafeForced(location, u, 1, << >>)
                     ELSE /\ synthesized' = 1
                          /\ request_url' = u
                          /\ transport_log' = << >>
                          /\ result' = Returned(_generate_redirect(location))
                          /\ pc' = "done"
                ELSE /\ synthesized' = 0
                     /\ request_url' = u
                     /\ transport_log' = <<Invoked(u)>>
                     /\ result' = NoResult
                     /\ pc' = "L315"
       ELSE SafeForced(u, u, 0, << >>)
    /\ NoProbing
    /\ calls' = Tick(calls)
    /\ came_from' = Followed
    /\ UNCHANGED <<adapter, exclusions, rulesets, _domains, mode>>

\* the initial send of line 315 ends
SafeUpgradeHTTPSAdapter_initial(o) ==
    /\ pc = "L315"
    /\ o \in ServerOutcomes(sent)
    /\ IF o.kind = "raise"
       THEN /\ result' = Raised(o.exc)
            /\ pc' = "done"
            /\ transport_log' = Ended(transport_log, o)
            /\ UNCHANGED <<request_url, synthesized>>
       ELSE IF ~SafeFollows(o.resp)
       THEN /\ result' = Returned(o.resp)
            /\ pc' = "done"
            /\ transport_log' = Ended(transport_log, o)
            /\ UNCHANGED <<request_url, synthesized>>
       ELSE IF ~Truthy(o.resp.location)
       THEN /\ result' = Raised("KeyError")
            /\ pc' = "done"
            /\ transport_log' = Ended(transport_log, o)
            /\ UNCHANGED <<request_url, synthesized>>
       ELSE SafeForced(o.resp.location, url, synthesized,
                       Ended(transport_log, o))
    /\ UNCHANGED <<adapter, exclusions, rulesets, _domains, consulted, mode,
                   calls, came_from, url, current_url, previous_url,
                   last_probe, redirect>>

\* the forced send of line 324 ends
SafeUpgradeHTTPSAdapter_try(o) ==
    /\ pc = "L324"
    /\ o \in ServerOutcomes(sent)
    /\ LET log == Ended(transport_log, o)
       IN  IF o.kind = "response"
           THEN SafeAfterForced(o.resp, request_url, url, log)
           ELSE IF SafeCatches(o.exc)
           THEN SafeFallback(request_url, log)
           ELSE /\ result' = Raised(o.exc)
                /\ pc' = "done"
                /\ transport_log' = log
                /\ UNCHANGED request_url
    /\ UNCHANGED <<adapter, exclusions, rulesets, _domains, consulted, mode,
                   calls, came_from, url, synthesized, current_url,
                   previous_url, last_probe, redirect>>


-----------------------------------------------------------------------------
(* PreferHTTPSAdapter *)

\* requests.Response.__bool__ is Response.ok: raise_for_status() does not raise
ResponseBool(resp) == resp.status < 400

\* line 198: the HEAD is followed by a GET
HeadNeedsGet(o) ==
    o.kind = "response" /\ ResponseBool(o.resp) /\ o.resp.status = 403

\* the outcomes of the GET of line 199, which is issued only after such a HEAD
GetOutcomes(o) == IF HeadNeedsGet(o) THEN Outcomes ELSE {Pending}

\* mutant: raise_for_status is left out, an error status passes
ProbeSucceeds_anyStatus(o, g) == o.kind = "response"

\* lines 189-209: a probe request, HEAD with outcome o and, where the code
\* issues it, GET with outcome g, ends with a response that passed
\* raise_for_status
ProbeSucceeds(o, g) ==
    IF o.kind = "response" /\ o.resp.status < 400
    THEN TRUE
    ELSE HeadNeedsGet(o) /\ g.kind = "response" /\ g.resp.status < 400

\* the probe request whose outcome the loop body goes on with
ProbeLast(o, g) ==
    IF o.kind = "response" /\ o.resp.status >= 400 /\ HeadNeedsGet(o)
    THEN [method |-> "GET", out |-> g]
    ELSE [method |-> "HEAD", out |-> o]

\* mutant: an https: Location to a host that is not excluded only stops the
\* probe, like a response without Location
ProbeBranch_httpsStops(location, current) ==
    IF ~Truthy(location) \/ location = current THEN "return"
    ELSE IF startswith(location, HTTPS_COLON)
    THEN IF _prevent_https(SliceFrom(location, 8)) THEN "downgrade"
         ELSE "return"
    ELSE IF startswith(location, HTTP) THEN "advance"
    ELSE "raise"

\* mutant: a Location with another scheme is followed like an http:// one
ProbeBranch_followsAny(location, current) ==
    IF ~Truthy(location) \/ location = current THEN "return"
    ELSE IF startswith(location, HTTPS_COLON)
    THEN IF _prevent_https(SliceFrom(location, 8)) THEN "downgrade"
         ELSE "response"
    ELSE "advance"

\* mutant: a Location with another scheme only stops the probe
ProbeBranch_otherStops(location, current) ==
    IF ~Truthy(location) \/ location = current THEN "return"
    ELSE IF startswith(location, HTTPS_COLON)
    THEN IF _prevent_https(SliceFrom(location, 8)) THEN "downgrade"
         ELSE "response"
    ELSE IF startswith(location, HTTP) THEN "advance"
    ELSE "return"

\* lines 219-235: what the loop body does with the Location of a response
\* that passed: "return" previous_url, "downgrade", "response", "advance"
\* or "raise"
ProbeBranch(location, current) ==
    IF ~Truthy(location) \/ location = current THEN "return"
    ELSE IF startswith(location, HTTPS_COLON)
    THEN IF _prevent_https(SliceFrom(location, 8)) THEN "downgrade"
         ELSE "response"
    ELSE IF startswith(location, HTTP) THEN "advance"
    ELSE "raise"

\* mutant: line 262 takes the tail of the URL the probe returned
PreferAfterProbe_lastVisited(r, u) ==
    LET tail == IF Truthy(r.str) /\ r.str # u THEN SliceFrom(r.str, 7)
                ELSE SliceFrom(u, 7)
    IN  IF r.type = "response"
        THEN [res |-> Returned(r.resp), n |-> 0]
        ELSE IF Truthy(r.str) /\ r.str # u /\ ~startswith(r.str, HTTP)
        THEN [res |-> Raised("RuntimeError_Unexpectedly"), n |-> 0]
        ELSE [res |-> Returned(_generate_redirect(HTTPS \o tail)), n |-> 1]

\* lines 252-272 of send, once the probe has returned r for the request URL u:
\* the result of send and the number of synthetic responses it made
PreferAfterProbe(r, u) ==
    LET upgrade == [res |-> Returned(_generate_redirect(HTTPS \o SliceFrom(u, 7))),
                    n |-> 1]
    IN  IF r.type = "response"
        THEN IF ResponseBool(r.resp)
             THEN [res |-> Returned(r.resp), n |-> 0]
             ELSE upgrade
        ELSE IF Truthy(r.str) /\ r.str # u /\ ~startswith(r.str, HTTP)
        THEN [res |-> Raised("RuntimeError_Unexpectedly"), n |-> 0]
        ELSE upgrade

PreferHTTPSAdapter_send(u) ==
    /\ adapter = "PreferHTTPSAdapter"
    /\ CallerSubmits(u)
    /\ url' = u
    /\ request_url' = u
    /\ redirect' = NoRedirect
    /\ last_probe' = NoProbe
    /\ previous_url' = None
    /\ consulted' = << >>
    /\ IF startswith(u, HTTPS) /\ _prevent_https(SliceFrom(u, 8))
       THEN /\ synthesized' = 1
            /\ result' = Returned(_generate_redirect(HTTP \o SliceFrom(u, 8)))
            /\ transport_log' = << >>
            /\ pc' = "done"
            /\ current_url' = None
       ELSE IF ~startswith(u, HTTPS) /\ startswith(u, HTTP)
                  /\ ~_prevent_https(SliceFrom(u, 7))
       THEN \* _follow_redirects_on_http(url) issues its first HEAD
            /\ synthesized' = 0
            /\ result' = NoResult
            /\ transport_log' = << >>
            /\ pc' = "L192"
            /\ current_url' = u
       ELSE \* line 274: ForceHTTPSAdapter.send(request)
            LET location == ForceRedirect(u)
            IN  /\ current_url' = None
                /\ IF Truthy(location)
                   THEN /\ synthesized' = 1
                        /\ result' = Returned(_generate_redirect(location))
                        /\ transport_log' = << >>
                        /\ pc' = "done"
                   ELSE /\ synthesized' = 0
                        /\ result' = NoResult
                        /\ transport_log' = <<Invoked(u)>>
                        /\ pc' = "L274"
    /\ calls' = Tick(calls)
    /\ came_from' = Followed
    /\ UNCHANGED <<adapter, exclusions, rulesets, _domains, mode>>

\* the probe returns r to send, which runs to its end
ProbeReturns(r) ==
    LET after == PreferAfterProbe(r, url)
    IN  /\ redirect' = r
        /\ result' = after.res
        /\ synthesized' = synthesized + after.n
        /\ pc' = "done"
        /\ UNCHANGED <<current_url, previous_url>>

\* one turn of the loop of _follow_redirects_on_http: the HEAD request to
\* current_url ends with o (and the GET, where issued, with g)
PreferHTTPSAdapter_probe(o, g) ==
    /\ pc = "L192"
    /\ o \in Outcomes
    /\ g \in GetOutcomes(o)
    /\ last_probe' = ProbeLast(o, g)
    /\ IF ~ProbeSucceeds(o, g)
       THEN ProbeReturns(RedirectStr(previous_url))
       ELSE LET resp == last_probe'.out.resp
                branch == ProbeBranch(resp.location, current_url)
            IN  CASE branch = "return" -> ProbeReturns(RedirectStr(previous_url))
                  [] branch = "downgrade" ->
                       ProbeReturns(RedirectStr(HTTP \o SliceFrom(resp.location, 8)))
                  [] branch = "response" -> ProbeReturns(RedirectResponse(resp))
                  [] branch = "advance" ->
                       /\ previous_url' = current_url
                       /\ current_url' = resp.location
                       /\ UNCHANGED <<redirect, result, synthesized, pc>>
                  [] branch = "raise" ->
                       /\ result' = Raised("RuntimeError")
                       /\ pc' = "done"
                       /\ UNCHANGED <<redirect, synthesized, current_url,
                                      previous_url>>
    /\ UNCHANGED <<adapter, exclusions, rulesets, _domains, consulted, mode,
                   calls, came_from, url, request_url, transport_log>>

-----------------------------------------------------------------------------
(* HTTPSEverywhereOnlyAdapter, ChromePreloadHSTSAdapter, HTTPSEverywhereAdapter *)

\* lines 60-63: the Location ChromePreloadHSTSAdapter.send redirects u to, or
\* None when it passes the request on
PreloadRedirect(u) ==
    IF startswith(u, HTTP) /\ _check_in(_domains, parse_url_host(u))
    THEN HTTPS_COLON \o SliceFrom(u, 5)
    ELSE None

\* lines 39-41: the Location HTTPSEverywhereOnlyAdapter.send redirects u to,
\* or None when it passes the request on
RulesetRedirect(u) ==
    IF startswith(u, HTTP) /\ startswith(https_url_rewrite(u), HTTPS)
    THEN https_url_rewrite(u)
    ELSE None

PolicyRedirect(policy, u) ==
    IF policy = "preload" THEN PreloadRedirect(u) ELSE RulesetRedirect(u)

\* mutant: the combined class names HTTPSEverywhereOnlyAdapter first
mro_rulesFirst(class) ==
    IF class = "ChromePreloadHSTSAdapter" THEN <<"preload">>
    ELSE IF class = "HTTPSEverywhereOnlyAdapter" THEN <<"ruleset">>
    ELSE <<"ruleset", "preload">>

\* The send methods a call goes through, by the method resolution order of
\* the class: line 73 names ChromePreloadHSTSAdapter first.
mro(class) ==
    IF class = "ChromePreloadHSTSAdapter" THEN <<"preload">>
    ELSE IF class = "HTTPSEverywhereOnlyAdapter" THEN <<"ruleset">>
    ELSE <<"preload", "ruleset">>

\* send of a class whose send methods are ps, each passing the request on
\* with super().send when its policy declines; line is that of the
\* HTTPAdapter.send call at the end of the chain.
SendThrough(ps, u, line) ==
    LET hits == {i \in 1..Len(ps) : Truthy(PolicyRedirect(ps[i], u))}
        first == IF hits = {} THEN 0
                 ELSE CHOOSE i \in hits : \A j \in hits : i <= j
    IN  /\ url' = u
        /\ request_url' = u
        /\ consulted' = IF ~startswith(u, HTTP) THEN << >>
                        ELSE IF first = 0 THEN ps
                        ELSE SubSeq(ps, 1, first)
        /\ IF first # 0
           THEN /\ synthesized' = 1
                /\ result' = Returned(_generate_redirect(PolicyRedirect(ps[first], u)))
                /\ transport_log' = << >>
                /\ pc' = "done"
           ELSE /\ synthesized' = 0
                /\ result' = NoResult
                /\ transport_log' = <<Invoked(u)>>
                /\ pc' = line
        /\ current_url' = None
        /\ previous_url' = None
        /\ last_probe' = NoProbe
        /\ redirect' = NoRedirect
        /\ calls' = Tick(calls)
        /\ came_from' = Followed
        /\ UNCHANGED <<adapter, exclusions, rulesets, _domains, mode>>

HTTPSEverywhereOnlyAdapter_send(u) ==
    /\ adapter = "HTTPSEverywhereOnlyAdapter"
    /\ CallerSubmits(u)
    /\ SendThrough(mro(adapter), u, "L48")

ChromePreloadHSTSAdapter_send(u) ==
    /\ adapter = "ChromePreloadHSTSAdapter"
    /\ CallerSubmits(u)
    /\ SendThrough(mro(adapter), u, "L70")

\* HTTPSEverywhereAdapter has no send of its own: ChromePreloadHSTSAdapter.send
\* runs, and its super().send of line 70 is HTTPSEverywhereOnlyAdapter.send
HTTPSEverywhereAdapter_send(u) ==
    /\ adapter = "HTTPSEverywhereAdapter"
    /\ CallerSubmits(u)
    /\ SendThrough(mro(adapter), u, "L48")

\* RedirectAdapter.send: get_redirect returns None, so no redirect is made
\* and the request goes to HTTPAdapter.send
RedirectAdapter_send(u) ==
    /\ adapter = "RedirectAdapter"
    /\ CallerSubmits(u)
    /\ url' = u
    /\ request_url' = u
    /\ synthesized' = 0
    /\ result' = NoResult
    /\ transport_log' = <<Invoked(u)>>
    /\ pc' = "L132"
    /\ NoProbing
    /\ calls' = Tick(calls)
    /\ came_from' = Followed
    /\ UNCHANGED <<adapter, exclusions, rulesets, _domains, mode>>

-----------------------------------------------------------------------------
(* The specification *)

Next ==
    \/ \E u \in RewriteSubmits : HTTPSEverywhereOnlyAdapter_send(u)
    \/ \E u \in RewriteSubmits : ChromePreloadHSTSAdapter_send(u)
    \/ \E u \in RewriteSubmits : HTTPSEverywhereAdapter_send(u)
    \/ \E u \in URLs : RedirectAdapter_send(u)
    \/ \E u \in URLs : ForceHTTPSAdapter_send(u)
    \/ \E u \in URLs : PreferHTTPSAdapter_send(u)
    \/ \E u \in URLs : UpgradeHTTPSAdapter_send(u)
    \/ \E u \in URLs : SafeUpgradeHTTPSAdapter_send(u)
    \/ \E o \in Outcomes : HTTPAdapter_send_returns(o)
    \/ \E o \in Outcomes : UpgradeHTTPSAdapter_try(o)
    \/ \E o \in Outcomes : SafeUpgradeHTTPSAdapter_initial(o)
    \/ \E o \in Outcomes : SafeUpgradeHTTPSAdapter_try(o)
    \/ \E o \in Outcomes : \E g \in GetOutcomes(o) : PreferHTTPSAdapter_probe(o, g)
    \/ CallerTakesResult

Spec == Init /\ [][Next]_vars

\* The loop scenario: one SafeUpgradeHTTPSAdapter, a caller that follows
\* every redirect it is given, and the server of LoopOutcomes.  send is
\* synchronous code and the caller does not give up, so a step that can be
\* taken is taken.
InitLoop ==
    /\ adapter = "SafeUpgradeHTTPSAdapter"
    /\ Constructed
    /\ mode = "follow"
    /\ pc = "idle"
    /\ url = None
    /\ request_url = None
    /\ result = NoResult
    /\ transport_log = << >>
    /\ synthesized = 0
    /\ current_url = None
    /\ previous_url = None
    /\ last_probe = NoProbe
    /\ redirect = NoRedirect
    /\ calls = 0
    /\ came_from = None

NextLoop ==
    \/ \E u \in URLs : SafeUpgradeHTTPSAdapter_send(u)
    \/ \E o \in Outcomes : SafeUpgradeHTTPSAdapter_try(o)
    \/ \E o \in Outcomes : HTTPAdapter_send_returns(o)

SpecLoop == InitLoop /\ [][NextLoop]_vars /\ WF_vars(NextLoop)


\* The probe scenario: one PreferHTTPSAdapter under any caller and any
\* network.  requests.head is a blocking call with a timeout (line 193), so
\* a pending probe request does end: with a response or with an exception.
InitProbe ==
    /\ adapter = "PreferHTTPSAdapter"
    /\ Constructed
    /\ mode = "free"
    /\ pc = "idle"
    /\ url = None
    /\ request_url = None
    /\ result = NoResult
    /\ transport_log = << >>
    /\ synthesized = 0
    /\ current_url = None
    /\ previous_url = None
    /\ last_probe = NoProbe
    /\ redirect = NoRedirect
    /\ calls = 0
    /\ came_from = None

ProbeStep ==
    \E o \in Outcomes : \E g \in GetOutcomes(o) : PreferHTTPSAdapter_probe(o, g)

NextProbe ==
    \/ \E u \in URLs : PreferHTTPSAdapter_send(u)
    \/ ProbeStep
    \/ \E o \in Outcomes : HTTPAdapter_send_returns(o)
    \/ CallerTakesResult

SpecProbe == InitProbe /\ [][NextProbe]_vars /\ WF_vars(ProbeStep)

\* The redirect scenario: a rule, preload or force adapter and a caller that,
\* like requests.Session, submits the Location of each response the adapter
\* made to the same adapter again.
RewriteAdapters == Adapters \ {"RedirectAdapter"}

InitRewrite ==
    /\ adapter \in RewriteAdapters
    /\ Constructed
    /\ mode = "redirected"
    /\ pc = "idle"
    /\ url = None
    /\ request_url = None
    /\ result = NoResult
    /\ transport_log = << >>
    /\ synthesized = 0
    /\ current_url = None
    /\ previous_url = None
    /\ last_probe = NoProbe
    /\ redirect = NoRedirect
    /\ calls = 0
    /\ came_from = None

NextRewrite ==
    \/ \E u \in RewriteSubmits : HTTPSEverywhereOnlyAdapter_send(u)
    \/ \E u \in RewriteSubmits : ChromePreloadHSTSAdapter_send(u)
    \/ \E u \in RewriteSubmits : HTTPSEverywhereAdapter_send(u)
    \/ \E u \in URLs : ForceHTTPSAdapter_send(u)
    \/ \E u \in URLs : PreferHTTPSAdapter_send(u)
    \/ \E u \in URLs : UpgradeHTTPSAdapter_send(u)
    \/ \E u \in URLs : SafeUpgradeHTTPSAdapter_send(u)
    \/ \E o \in Outcomes : HTTPAdapter_send_returns(o)
    \/ \E o \in Outcomes : UpgradeHTTPSAdapter_try(o)
    \/ \E o \in Outcomes : SafeUpgradeHTTPSAdapter_initial(o)
    \/ \E o \in Outcomes : SafeUpgradeHTTPSAdapter_try(o)
    \/ ProbeStep

SpecRewrite == InitRewrite /\ [][NextRewrite]_vars


-----------------------------------------------------------------------------
(* Vocabulary of the properties, written apart from the operators above *)

\* p is a prefix of s
HasPrefix(s, p) ==
    Len(p) <= Len(s) /\ \A j \in 1..Len(p) : s[j] = p[j]

\* s without its first n characters
Drop(s, n) == [j \in 1..(IF Len(s) > n THEN Len(s) - n ELSE 0) |-> s[j + n]]

IsHttp(u) == HasPrefix(u, HTTP)
IsHttps(u) == HasPrefix(u, HTTPS)

\* the tail of an http:// URL and of an https:// URL
HttpTail(u) == Drop(u, 7)
HttpsTail(u) == Drop(u, 8)

\* section 4.2: a tail is excluded iff it starts with a configured prefix
TailExcluded(t) ==
    \E i \in DOMAIN exclusions : HasPrefix(t, exclusions[i])

\* the synthetic 302 redirect to location
Synthetic302(location) ==
    [status |-> 302, reason |-> "HTTPS Everywhere", location |-> location]

Categorized == {"ConnectionError", "MaxRetryError", "SSLError"}

\* what the caller gets from the n-th HTTPAdapter.send call of this send
TransportGave(n) ==
    LET o == transport_log[n].out
    IN  IF o.kind = "response" THEN Returned(o.resp) ELSE Raised(o.exc)

\* the n-th HTTPAdapter.send call has ended
TransportEnded(n) ==
    Len(transport_log) >= n /\ transport_log[n].out.kind \in {"response", "raise"}

-----------------------------------------------------------------------------
(* C1 *)

\* C1: ForceHTTPSAdapter.send decides by exactly three cases.  An https://
\* URL with an excluded tail gets a synthetic 302 to http:// + tail and no
\* transport call; an http:// URL with a tail that is not excluded gets a
\* synthetic 302 to https:// + tail and no transport call; every other
\* request is forwarded once with its URL unchanged, and the transport's
\* outcome is the outcome of send.
C1_ForceThreeCases ==
    (adapter = "ForceHTTPSAdapter" /\ pc # "idle") =>
        IF IsHttps(url) /\ TailExcluded(HttpsTail(url))
        THEN /\ pc = "done"
             /\ result = Returned(Synthetic302(HTTP \o HttpsTail(url)))
             /\ transport_log = << >>
        ELSE IF IsHttp(url) /\ ~TailExcluded(HttpTail(url))
        THEN /\ pc = "done"
             /\ result = Returned(Synthetic302(HTTPS \o HttpTail(url)))
             /\ transport_log = << >>
        ELSE /\ Len(transport_log) = 1
             /\ transport_log[1].url = url
             /\ request_url = url
             /\ synthesized = 0
             /\ pc \in {"L172", "done"}
             /\ pc = "done" => (TransportEnded(1) /\ result = TransportGave(1))

\* a downgrade of an https:// URL under a non-empty exclusion prefix
C1_Witness ==
    /\ adapter = "ForceHTTPSAdapter"
    /\ pc = "done"
    /\ IsHttps(url)
    /\ Len(exclusions) = 1
    /\ Len(exclusions[1]) = 1
    /\ result.kind = "return"
    /\ result.resp.reason = _REASON
    /\ IsHttp(result.resp.location)

-----------------------------------------------------------------------------
(* C2 *)

\* C2: in every send call on one ForceHTTPSAdapter, the first and each later
\* one, the transport is never invoked with an https:// URL whose tail is
\* excluded, nor with an http:// URL whose tail is not excluded.
C2_ForcePinsScheme ==
    adapter = "ForceHTTPSAdapter" =>
        \A i \in DOMAIN transport_log :
            LET u == transport_log[i].url
            IN  /\ ~(IsHttps(u) /\ TailExcluded(HttpsTail(u)))
                /\ ~(IsHttp(u) /\ ~TailExcluded(HttpTail(u)))

\* a later call on the same adapter that reaches the transport with an
\* excluded http:// URL
C2_Witness ==
    /\ adapter = "ForceHTTPSAdapter"
    /\ calls = 2
    /\ pc = "done"
    /\ Len(transport_log) = 1
    /\ IsHttp(transport_log[1].url)
    /\ Len(exclusions) = 1
    /\ Len(exclusions[1]) = 1

-----------------------------------------------------------------------------
(* C3 *)

\* C3: when UpgradeHTTPSAdapter.send is called with https://t and the forced
\* send fails with a categorized failure, request.url becomes http://t, the
\* transport is invoked with it (no synthetic response is made on the way),
\* and what that second call gives is what send gives.
C3_UpgradeFallsBack ==
    (/\ adapter = "UpgradeHTTPSAdapter"
     /\ IsHttps(url)
     /\ TransportEnded(1)
     /\ transport_log[1].out.kind = "raise"
     /\ transport_log[1].out.exc \in Categorized) =>
        /\ request_url = HTTP \o HttpsTail(url)
        /\ Len(transport_log) = 2
        /\ transport_log[2].url = HTTP \o HttpsTail(url)
        /\ synthesized = 0
        /\ pc \in {"L300", "done"}
        /\ pc = "done" => (TransportEnded(2) /\ result = TransportGave(2))

\* the fallback ran and its http response was returned
C3_Witness ==
    /\ adapter = "UpgradeHTTPSAdapter"
    /\ pc = "done"
    /\ Len(transport_log) = 2
    /\ transport_log[1].out.exc = "SSLError"
    /\ IsHttp(request_url)
    /\ result.kind = "return"

-----------------------------------------------------------------------------
(* C4 *)

\* C4: UpgradeHTTPSAdapter.send makes a second transport call only for an
\* https:// request whose first send raised a categorized failure; any other
\* failure of the first send propagates unchanged, with no second call and
\* request.url as it was.
C4_UpgradeOnlyThen ==
    adapter = "UpgradeHTTPSAdapter" =>
        /\ Len(transport_log) <= 2
        /\ Len(transport_log) = 2 =>
              /\ IsHttps(url)
              /\ transport_log[1].out.kind = "raise"
              /\ transport_log[1].out.exc \in Categorized
        /\ (/\ TransportEnded(1)
            /\ transport_log[1].out.kind = "raise"
            /\ ~(IsHttps(url) /\ transport_log[1].out.exc \in Categorized)) =>
              /\ pc = "done"
              /\ result = Raised(transport_log[1].out.exc)
              /\ Len(transport_log) = 1
              /\ request_url = url

\* a categorized failure of a request that is not https:// propagates
C4_Witness ==
    /\ adapter = "UpgradeHTTPSAdapter"
    /\ pc = "done"
    /\ IsHttp(url)
    /\ Len(transport_log) = 1
    /\ result = Raised("ConnectionError")


-----------------------------------------------------------------------------
(* C5 *)

\* C5: when SafeUpgradeHTTPSAdapter.send is called with http://t, t not
\* excluded, the synthetic upgrade response of the initial send is not what
\* the caller gets: request.url is set to https://t and the first transport
\* call of the send is made with https://t.  When the initial send reaches
\* the transport instead (the URL is not https:// and gets no synthetic
\* response), its response is returned as it is, with no further send.
C5_SafeFollowsSynthetic ==
    (adapter = "SafeUpgradeHTTPSAdapter" /\ pc # "idle") =>
        /\ (IsHttp(url) /\ ~TailExcluded(HttpTail(url))) =>
              /\ synthesized = 1
              /\ Len(transport_log) >= 1
              /\ transport_log[1].url = HTTPS \o HttpTail(url)
              /\ pc = "L324" => request_url = HTTPS \o HttpTail(url)
              /\ pc \in {"L324", "L335", "done"}
              /\ (pc = "done" /\ result.kind = "return") =>
                    result = TransportGave(Len(transport_log))
        /\ (/\ ~IsHttps(url)
            /\ ~(IsHttp(url) /\ ~TailExcluded(HttpTail(url)))
            /\ TransportEnded(1)
            /\ transport_log[1].out.kind = "response") =>
              /\ pc = "done"
              /\ result = Returned(transport_log[1].out.resp)
              /\ Len(transport_log) = 1
              /\ synthesized = 0
              /\ request_url = url

-----------------------------------------------------------------------------
(* C6 *)

\* C6: in SafeUpgradeHTTPSAdapter.send, when the forced https send is
\* answered and the Location of the answer equals the URL the request had on
\* entry, the answer is discarded, request.url becomes http:// + tail and the
\* transport is invoked with it; when the Location is absent or differs from
\* the URL on entry, the answer is returned and there is no fallback.
C6_SafeSelfRedirect ==
    (/\ adapter = "SafeUpgradeHTTPSAdapter"
     /\ TransportEnded(1)
     /\ IsHttps(transport_log[1].url)
     /\ transport_log[1].out.kind = "response") =>
        LET forced == transport_log[1]
        IN  IF forced.out.resp.location # << >> /\ forced.out.resp.location = url
            THEN /\ request_url = HTTP \o HttpsTail(forced.url)
                 /\ Len(transport_log) = 2
                 /\ transport_log[2].url = HTTP \o HttpsTail(forced.url)
                 /\ pc \in {"L335", "done"}
                 /\ pc = "done" => (TransportEnded(2) /\ result = TransportGave(2))
            ELSE /\ pc = "done"
                 /\ result = Returned(forced.out.resp)
                 /\ Len(transport_log) = 1
                 /\ request_url = forced.url

\* an http:// request whose https answer redirected back to it fell back
C6_Witness ==
    /\ adapter = "SafeUpgradeHTTPSAdapter"
    /\ pc = "done"
    /\ IsHttp(url)
    /\ Len(transport_log) = 2
    /\ transport_log[1].out.kind = "response"
    /\ transport_log[1].out.resp.location = url
    /\ request_url = url


-----------------------------------------------------------------------------
(* C7 *)

\* the caller holds the answer of http://t: a response without Location that
\* the transport gave for the http:// form of the submitted URL
LoopAnswered ==
    /\ pc = "done"
    /\ result.kind = "return"
    /\ result.resp.location = << >>
    /\ Len(transport_log) >= 1
    /\ LET last == transport_log[Len(transport_log)]
       IN  /\ IsHttp(last.url)
           /\ HttpTail(last.url) = (IF IsHttps(url) THEN HttpsTail(url)
                                    ELSE HttpTail(url))
           /\ result = TransportGave(Len(transport_log))

\* C7: loop prevention.  A caller that re-submits every Location it gets
\* through one SafeUpgradeHTTPSAdapter, starting from http://t or https://t
\* with t not excluded, against a server where https://t fails with a
\* categorized failure or redirects to http://t and http://t answers without
\* Location, eventually holds the answer of http://t; no run alternates
\* between the two URLs forever.
C7_LoopEnds == (pc # "idle") ~> LoopAnswered

\* the caller was redirected from https://t to http://t, re-submitted it and
\* got the answer after the https send redirected back once more
C7_Witness ==
    /\ LoopAnswered
    /\ calls = 2
    /\ IsHttp(url)
    /\ Len(transport_log) = 2
    /\ transport_log[1].out.kind = "response"


-----------------------------------------------------------------------------
(* C8, C9, C10: PreferHTTPSAdapter.send on http://t, t not excluded *)

\* send has ended for an http:// request whose tail is not excluded
PreferProbed ==
    /\ adapter = "PreferHTTPSAdapter"
    /\ pc = "done"
    /\ IsHttp(url)
    /\ ~TailExcluded(HttpTail(url))

\* the last probe request gave a response that passed raise_for_status
ProbeAnswered ==
    /\ last_probe.method # "none"
    /\ last_probe.out.kind = "response"
    /\ last_probe.out.resp.status < 400

ProbeLocation == last_probe.out.resp.location

\* the probe ended without meeting an https Location: on a failed request,
\* on a response without Location, or on a Location equal to the URL asked
ProbeEndedPlain ==
    /\ last_probe.method # "none"
    /\ \/ ~ProbeAnswered
       \/ ProbeLocation = << >>
       \/ ProbeLocation = current_url

\* the probe ended on a Location that starts with https:
ProbeEndedHttps ==
    ProbeAnswered /\ HasPrefix(ProbeLocation, HTTPS_COLON)

\* C8: when the probe ends without meeting an https Location, after any
\* number of http-to-http hops, send returns the synthetic 302 to https://t,
\* the https form of the URL of the request, and not of a URL visited later.
C8_PreferUpgradesOriginal ==
    (PreferProbed /\ ProbeEndedPlain) =>
        /\ result = Returned(Synthetic302(HTTPS \o HttpTail(url)))
        /\ synthesized = 1
        /\ transport_log = << >>

\* the probe went over two hops before it ended, the last one from another
\* URL than that of the request
C8_Witness ==
    /\ PreferProbed
    /\ ProbeEndedPlain
    /\ previous_url # << >>
    /\ previous_url # url
    /\ current_url # previous_url
    /\ result.kind = "return"

\* C9: when the probe ends on an https: Location whose tail is excluded, the
\* probe returns http:// + that tail and send uses that URL as its target
\* (the request is re-targeted to it) instead of synthesizing the standard
\* upgrade redirect to https://t.
C9_PreferUsesDowngrade ==
    (PreferProbed /\ ProbeEndedHttps /\ TailExcluded(Drop(ProbeLocation, 8))) =>
        LET target == HTTP \o Drop(ProbeLocation, 8)
        IN  /\ redirect = RedirectStr(target)
            /\ \/ request_url = target
               \/ result.kind = "return" /\ result.resp.location = target
            /\ result # Returned(Synthetic302(HTTPS \o HttpTail(url)))

\* C10: when the probe ends on an https: Location whose tail is not excluded,
\* send returns the response of that probe request itself: no synthetic
\* response is made, the transport is not invoked and the response does not
\* carry the sentinel reason.
C10_PreferReturnsProbeResponse ==
    (PreferProbed /\ ProbeEndedHttps /\ ~TailExcluded(Drop(ProbeLocation, 8))) =>
        /\ result = Returned(last_probe.out.resp)
        /\ redirect = RedirectResponse(last_probe.out.resp)
        /\ synthesized = 0
        /\ transport_log = << >>
        /\ result.resp.reason # _REASON

\* C10, amended: when the probe ends on an https: Location whose tail is not
\* excluded, send returns the response of that probe request itself and
\* unchanged, with the reason phrase the server gave it, be it the phrase
\* "HTTPS Everywhere"; no synthetic response is made and the transport is
\* not invoked.
C10_PreferReturnsRawResponse ==
    (PreferProbed /\ ProbeEndedHttps /\ ~TailExcluded(Drop(ProbeLocation, 8))) =>
        /\ result = Returned(last_probe.out.resp)
        /\ redirect = RedirectResponse(last_probe.out.resp)
        /\ synthesized = 0
        /\ transport_log = << >>

\* the probe met the https: Location after one http-to-http hop, in a
\* response with the reason phrase "HTTPS Everywhere"
C10_Witness ==
    /\ PreferProbed
    /\ ProbeEndedHttps
    /\ ~TailExcluded(Drop(ProbeLocation, 8))
    /\ previous_url = url
    /\ Len(exclusions) = 1
    /\ result.kind = "return"
    /\ IsHttps(result.resp.location)
    /\ result.resp.reason = "HTTPS Everywhere"
    /\ result.resp.status = 200

-----------------------------------------------------------------------------
(* C11, C12: failures in the probe of PreferHTTPSAdapter *)

\* the last probe request passed and its Location, not empty and not the URL
\* asked, starts with neither https: nor http://
ProbeEndedOtherScheme ==
    /\ ProbeAnswered
    /\ ProbeLocation # << >>
    /\ ProbeLocation # current_url
    /\ ~HasPrefix(ProbeLocation, HTTPS_COLON)
    /\ ~HasPrefix(ProbeLocation, HTTP)

\* C11: no failure that arises inside the probe of PreferHTTPSAdapter is
\* observed by the caller of send; the only failures a caller observes are
\* failures of the final forced send: when send raises, the transport was
\* invoked and the exception is the one the transport raised.
C11_OnlyForcedSendFails ==
    (adapter = "PreferHTTPSAdapter" /\ pc = "done" /\ result.kind = "raise") =>
        /\ Len(transport_log) = 1
        /\ TransportEnded(1)
        /\ result = TransportGave(1)

\* C11: no failure of a probe request of PreferHTTPSAdapter (an exception of
\* the request or an error status) is observed by the caller of send: it ends
\* the probe with the last known-good URL (none if the first request failed)
\* and send returns its synthetic upgrade to https://t.  The failures a
\* caller observes are those of the forced send, made without any probe, and
\* the hard failure of the probe on a Location with another scheme.
C11_ProbeRequestFailuresHidden ==
    (adapter = "PreferHTTPSAdapter" /\ pc = "done") =>
        /\ (last_probe.method # "none" /\ ~ProbeAnswered) =>
              /\ redirect = RedirectStr(previous_url)
              /\ result = Returned(Synthetic302(HTTPS \o HttpTail(url)))
              /\ transport_log = << >>
        /\ result.kind = "raise" =>
              \/ /\ last_probe.method = "none"
                 /\ Len(transport_log) = 1
                 /\ TransportEnded(1)
                 /\ result = TransportGave(1)
              \/ /\ ProbeEndedOtherScheme
                 /\ transport_log = << >>

\* the second probe request timed out after one http-to-http hop, and send
\* returned a response
C11_Witness ==
    /\ PreferProbed
    /\ last_probe.method = "HEAD"
    /\ last_probe.out.kind = "raise"
    /\ last_probe.out.exc = "ReadTimeout"
    /\ previous_url = url
    /\ current_url # url
    /\ redirect = RedirectStr(url)
    /\ result.kind = "return"

\* C12: when a probe request of PreferHTTPSAdapter passes with a Location
\* that is not empty, differs from the URL just asked and starts with
\* neither https: nor http://, an error is raised out of the probe and out of
\* send: the probe returns nothing to send (no last known-good URL), and no
\* synthetic response is made for that send.
C12_OtherSchemeFailsHard ==
    (adapter = "PreferHTTPSAdapter" /\ last_probe.method # "none"
        /\ ProbeEndedOtherScheme) =>
        /\ pc = "done"
        /\ result = Raised("RuntimeError")
        /\ redirect = NoRedirect
        /\ synthesized = 0
        /\ transport_log = << >>

\* the probe met an ftp:// Location after one http-to-http hop
C12_Witness ==
    /\ PreferProbed
    /\ ProbeAnswered
    /\ HasPrefix(ProbeLocation, FTP)
    /\ previous_url = url
    /\ current_url # url
    /\ result.kind = "raise"

-----------------------------------------------------------------------------
(* C13 *)

\* C13: every PreferHTTPSAdapter.send issues only a bounded number of probe
\* requests and then returns or raises, for every server behaviour, a cycle
\* of http-to-http redirects through two distinct URLs included: a send that
\* waits for the answer of a probe request eventually ends.
C13_ProbeEnds == (pc = "L192") ~> (pc = "done")

-----------------------------------------------------------------------------
(* C14 *)

\* the caller holds a response the adapter made itself in this send: one
\* that no transport call of the send gave
GotSynthetic ==
    /\ pc = "done"
    /\ result.kind = "return"
    /\ synthesized > 0
    /\ \A i \in DOMAIN transport_log : TransportGave(i) # result

\* C14: idempotence of rewriting.  In the redirect scenario every send after
\* the first is the Location of a synthetic response submitted to the same
\* adapter again.  For each rewrite adapter such a send does not make the
\* same rewrite again (it makes no synthetic response before the request has
\* gone to the transport with its URL as submitted and has been answered)
\* and returns no synthetic redirect back to the first URL; so a client gets
\* at most one synthetic response in a row before the request reaches the
\* network.
C14_RewriteOnce ==
    calls >= 2 =>
        /\ Len(transport_log) >= 1
        /\ transport_log[1].url = url
        /\ ~TransportEnded(1) => synthesized = 0
        /\ GotSynthetic =>
              /\ result.resp.location # url
              /\ result.resp.location # came_from

-----------------------------------------------------------------------------
(* C15 *)

\* the host of an http:// URL without port and user
HostOf(u) ==
    LET t == Drop(u, 7)
    IN  IF \E i \in DOMAIN t : t[i] = "/"
        THEN LET k == CHOOSE i \in DOMAIN t :
                          t[i] = "/" /\ \A j \in 1..(i - 1) : t[j] # "/"
             IN  [j \in 1..(k - 1) |-> t[j]]
        ELSE t

\* section 4.4: the host, or a parent domain of it, is a preloaded domain
Preloaded(h) ==
    \E d \in _domains :
        h = d \/ \E k \in DOMAIN h : h[k] = "." /\ Drop(h, k) = d

\* C15: for HTTPSEverywhereAdapter and every http:// request the preload
\* policy is consulted first.  If the host is in the preload set, send
\* returns the synthetic 302 to https: + the URL after its 5-character
\* prefix and the ruleset is not consulted; the ruleset is consulted only
\* when the preload policy declines, and the transport is invoked only when
\* both decline.
C15_PreloadFirst ==
    (adapter = "HTTPSEverywhereAdapter" /\ pc # "idle" /\ IsHttp(url)) =>
        /\ Len(consulted) >= 1
        /\ consulted[1] = "preload"
        /\ IF Preloaded(HostOf(url))
           THEN /\ consulted = <<"preload">>
                /\ pc = "done"
                /\ result = Returned(Synthetic302(HTTPS_COLON \o Drop(url, 5)))
                /\ transport_log = << >>
           ELSE consulted = <<"preload", "ruleset">>
        /\ transport_log # << >> =>
              /\ ~Preloaded(HostOf(url))
              /\ ~IsHttps(https_url_rewrite(url))
              /\ synthesized = 0
              /\ transport_log[1].url = url

\* a subdomain of a preloaded domain, for which a rule exists too, was
\* upgraded by the preload policy alone
C15_Witness ==
    /\ adapter = "HTTPSEverywhereAdapter"
    /\ pc = "done"
    /\ url = HTTP \o <<"b", ".", "a">>
    /\ _domains = {<<"a">>}
    /\ Len(rulesets) = 1
    /\ consulted = <<"preload">>
    /\ result.kind = "return"
    /\ IsHttps(result.resp.location)

-----------------------------------------------------------------------------
(* C16 *)

\* C16: for every adapter and every request whose URL starts with neither
\* http:// nor https://, send attempts no rewrite: it makes no synthetic
\* response, issues no probe request, looks up no policy, leaves request.url
\* unchanged and invokes the transport exactly once, with that URL; what the
\* transport returns or raises is what send returns or raises.
C16_OtherSchemesPass ==
    (pc # "idle" /\ ~IsHttp(url) /\ ~IsHttps(url)) =>
        /\ synthesized = 0
        /\ last_probe = NoProbe
        /\ pc # "L192"
        /\ consulted = << >>
        /\ request_url = url
        /\ Len(transport_log) = 1
        /\ transport_log[1].url = url
        /\ pc = "done" => (TransportEnded(1) /\ result = TransportGave(1))

-----------------------------------------------------------------------------
(* C17 *)

\* C17: in the probe of PreferHTTPSAdapter a HEAD request answered with
\* status 403 is followed by a GET request to the same URL, and the probe
\* goes on with the response of the GET: no turn of the probe loop ends on
\* the answer of a HEAD whose status is 403.
C17_GetAfter403 ==
    (adapter = "PreferHTTPSAdapter" /\ last_probe.method = "HEAD"
        /\ last_probe.out.kind = "response") =>
        last_probe.out.resp.status # 403

-----------------------------------------------------------------------------
(* C18 *)

\* C18: in PreferHTTPSAdapter.send the exclusion check comes before probing.
\* No probe request is issued for a request whose URL starts with https://,
\* nor for an http:// request whose tail is excluded; an excluded https://
\* URL gets the synthetic 302 to http:// + tail with no transport call, and
\* an excluded http:// URL goes to the transport as it is.
C18_ExclusionBeforeProbe ==
    (/\ adapter = "PreferHTTPSAdapter"
     /\ pc # "idle"
     /\ IsHttps(url) \/ (IsHttp(url) /\ TailExcluded(HttpTail(url)))) =>
        /\ pc # "L192"
        /\ last_probe = NoProbe
        /\ redirect = NoRedirect
        /\ (IsHttps(url) /\ TailExcluded(HttpsTail(url))) =>
              /\ pc = "done"
              /\ result = Returned(Synthetic302(HTTP \o HttpsTail(url)))
              /\ transport_log = << >>
        /\ IsHttp(url) =>
              /\ synthesized = 0
              /\ Len(transport_log) = 1
              /\ transport_log[1].url = url
              /\ request_url = url
              /\ pc = "done" => (TransportEnded(1) /\ result = TransportGave(1))

\* an http:// request under a non-empty exclusion prefix was answered by the
\* transport
C18_Witness ==
    /\ adapter = "PreferHTTPSAdapter"
    /\ pc = "done"
    /\ IsHttp(url)
    /\ Len(exclusions) = 1
    /\ Len(exclusions[1]) = 1
    /\ TailExcluded(HttpTail(url))
    /\ Len(transport_log) = 1
    /\ result.kind = "return"

-----------------------------------------------------------------------------
(* C19 *)

\* C19: in every send of UpgradeHTTPSAdapter or SafeUpgradeHTTPSAdapter the
\* transport is invoked at most twice.  A second invocation comes only after
\* a first one with an https:// URL that has ended, its URL is http:// + the
\* tail of that first URL, and when it fails the failure is what send
\* raises: nothing is sent after it.
C19_AtMostTwoSends ==
    adapter \in {"UpgradeHTTPSAdapter", "SafeUpgradeHTTPSAdapter"} =>
        /\ Len(transport_log) <= 2
        /\ Len(transport_log) = 2 =>
              /\ TransportEnded(1)
              /\ IsHttps(transport_log[1].url)
              /\ transport_log[2].url = HTTP \o HttpsTail(transport_log[1].url)
        /\ (TransportEnded(2) /\ transport_log[2].out.kind = "raise") =>
              /\ pc = "done"
              /\ result = Raised(transport_log[2].out.exc)

-----------------------------------------------------------------------------
(* C20 *)

\* C20: every URL the probe of PreferHTTPSAdapter sends a request to starts
\* with http://, and every string the probe returns starts with http:// (it
\* returns None otherwise); so the RuntimeError "Unexpectedly ... redirected"
\* of send is never raised.
C20_ProbeStaysOnHttp ==
    adapter = "PreferHTTPSAdapter" =>
        /\ (pc = "L192" \/ last_probe.method # "none") => IsHttp(current_url)
        /\ previous_url # << >> => IsHttp(previous_url)
        /\ (redirect.type = "str" /\ redirect.str # << >>) => IsHttp(redirect.str)
        /\ result # Raised("RuntimeError_Unexpectedly")

\* the probe returned a string that is not the URL of the request, and send
\* passed the test of line 261
C20_Witness ==
    /\ PreferProbed
    /\ redirect.type = "str"
    /\ redirect.str # << >>
    /\ redirect.str # url
    /\ IsHttp(redirect.str)
    /\ result.kind = "return"

=============================================================================
